---- MODULE Spec2Model ----
(***************************************************************************)
(* Model of Evolution.py: the evolution-law factory, the Hopkins-Beacom    *)
(* parametrization, and one SourcePopulation / TransientSourcePopulation   *)
(* instance with its redshift sampling table and its flux conversions.     *)
(*                                                                         *)
(* Real numbers are exact rationals <<n, d>> with d > 0.  The IEEE values  *)
(* numpy produces on a division by zero are <<1,0>> (inf), <<-1,0>> (-inf) *)
(* and <<0,0>> (nan).  Redshift is cut into the unit cells [k, k+1) below  *)
(* ZTop - 1 and one last cell [ZTop - 1, oo).  The evolution callable is a *)
(* table of weights over the cells, fixed when the population is           *)
(* constructed; the cosmology provider (cosmolopy, an external library) is *)
(* a positive function of the cell and of the Hubble parameter.            *)
(***************************************************************************)
EXTENDS Integers, Sequences, FiniteSets, TLC

VARIABLES self, kind, ret, built

vars == <<self, kind, ret, built>>

(* ------------------------------ bounds --------------------------------- *)
ZTop == 2
MaxW == 1
MaxBins == 2

(* ------------------------- rational arithmetic ------------------------- *)
Abs(n) == IF n < 0 THEN -n ELSE n

RECURSIVE GCD(_, _)
GCD(a, b) == IF b = 0 THEN a ELSE GCD(b, a % b)

(* n/d in lowest terms with a positive denominator; n/0 is inf, -inf or nan *)
Rat(n, d) ==
    IF d = 0 THEN <<(IF n > 0 THEN 1 ELSE IF n < 0 THEN -1 ELSE 0), 0>>
    ELSE LET g == GCD(Abs(n), Abs(d))
             s == IF d < 0 THEN -1 ELSE 1
         IN  <<s * (n \div g), s * (d \div g)>>

R(n) == <<n, 1>>
NaN == <<0, 0>>
Inf == <<1, 0>>
IsFinite(a) == a[2] # 0
IsNaN(a) == a = NaN


(* IEEE arithmetic: inf + inf = inf, inf - inf = nan, 0 * inf = nan,       *)
(* x / 0 = inf, -inf or nan; it never raises.                              *)
RAdd(a, b) ==
    IF a[2] = 0 /\ b[2] = 0 THEN (IF a = b THEN a ELSE NaN)
    ELSE Rat(a[1] * b[2] + b[1] * a[2], a[2] * b[2])

RNeg(a) == <<-a[1], a[2]>>
RSub(a, b) == RAdd(a, RNeg(b))

RMul(a, b) == Rat(a[1] * b[1], a[2] * b[2])

NpDiv(a, b) ==
    IF a[2] = 0 /\ b[2] = 0 THEN NaN
    ELSE Rat(a[1] * b[2] * (IF b[1] < 0 THEN -1 ELSE 1), a[2] * Abs(b[1]))

RLess(a, b) ==
    IF IsNaN(a) \/ IsNaN(b) THEN FALSE
    ELSE IF IsFinite(a) /\ IsFinite(b) THEN a[1] * b[2] < b[1] * a[2]
    ELSE IF IsFinite(a) THEN b[1] > 0
    ELSE IF IsFinite(b) THEN a[1] < 0
    ELSE a[1] < b[1]

RLeq(a, b) == ~IsNaN(a) /\ ~IsNaN(b) /\ (a = b \/ RLess(a, b))

RECURSIVE RPow(_, _)
RPow(a, k) == IF k = 0 THEN R(1) ELSE RMul(a, RPow(a, k - 1))

Floor(a) == a[1] \div a[2]
Ceil(a) == -((-a[1]) \div a[2])

(* ---------------------------- call outcomes ---------------------------- *)
Ok(v) == [ok |-> TRUE, val |-> v]
Raise(e, m) == [ok |-> FALSE, err |-> e, msg |-> m]

(* ------------------- evolution laws (module level) --------------------- *)
SupportedNames == {"NoEvolution", "HB2006SFR", "YMKBH2008SFR", "CC2015SNR"}

evolutions ==
    [n \in SupportedNames |->
        CASE n = "NoEvolution" -> "NoEvolution"
          [] n = "HB2006SFR" -> "HopkinsBeacom2006StarFormationRate"
          [] n = "YMKBH2008SFR" -> "YukselEtAl2008StarFormationRate"
          [] n = "CC2015SNR" -> "CandelsClash2015SNRate"]

(* Number of parameters Evolution.__init__ declares: "def __init__():". *)
Evolution_init_params == 0

(* cls(): Python passes the new instance as the one positional argument of *)
(* the inherited Evolution.__init__.                                       *)
Instantiate(cls) ==
    IF Evolution_init_params = 1
    THEN Ok([class |-> cls])
    ELSE Raise("TypeError", <<"__init__() takes 0 positional arguments but 1 was given">>)

get_evolution(evol) ==
    IF evol \notin DOMAIN evolutions
    THEN Raise("NotImplementedError", <<"Source evolution ", evol, " not implemented.">>)
    ELSE Instantiate(evolutions[evol])

(* HopkinsBeacom2006StarFormationRate.parametrization.  x is in units of   *)
(* 1e-5; the value returned is the exponent e of np.power(10, e), in       *)
(* units of 1e-8 (3.28 -> 3280 per 1e-5 of x, 1.82 -> 182000000).          *)
HB_low(x) == 3280 * x - 182000000
HB_mid(x) == (-260) * x - 72400000
HB_high(x) == (-8000) * x + 499000000
HB_break1 == 30963
HB_break2 == 73878

(* a variant with the first breakpoint on the lower branch *)
HB_parametrization_closed_below(x) ==
    IF x <= HB_break1 THEN HB_low(x)
    ELSE IF x < HB_break2 THEN HB_mid(x)
    ELSE HB_high(x)

HB_parametrization(x) ==
    IF x < HB_break1 THEN HB_low(x)
    ELSE IF x >= HB_break1 /\ x < HB_break2 THEN HB_mid(x)
    ELSE HB_high(x)

(* --------------------------- the population ---------------------------- *)
Cells == 0 .. (ZTop - 1)
CellOf(z) == IF Floor(z) > ZTop - 1 THEN ZTop - 1 ELSE IF Floor(z) < 0 THEN 0 ELSE Floor(z)

np_pi == 3

(* self.evolution(z): a concrete law is a table of weights over the cells; *)
(* a law that does not override parametrization raises "Abstract".         *)
evolution_call(z) ==
    IF self["evolution"].abstract
    THEN Raise("NotImplementedError", <<"Abstract">>)
    ELSE Ok(R(self["evolution"].w[CellOf(z)]))

(* The Hubble distance c/H0 of the cosmology, in model units: 2 for the    *)
(* module's h = 0.678.                                                     *)
hubble_distance(c) == 1356 \div c.h

(* cosmolopy.distance.diff_comoving_volume(z, **cosmology) *)
diff_comoving_volume(z) == R(hubble_distance(self["cosmology"]) * (CellOf(z) + 1))

SourcePopulation_RedshiftDistribution(z) ==
    LET e == evolution_call(z)
    IN  IF ~e.ok THEN e
        ELSE Ok(RMul(RMul(R(4 * np_pi), e.val), diff_comoving_volume(z)))

RedshiftDistribution(z) ==
    IF kind = "TransientSourcePopulation"
    THEN LET b == SourcePopulation_RedshiftDistribution(z)
         IN  IF ~b.ok THEN b
             ELSE Ok(RMul(b.val, NpDiv(R(1), RAdd(R(1), z))))
    ELSE SourcePopulation_RedshiftDistribution(z)

(* scipy.integrate.quad(F, a, b)[0]: midpoint rule over the cells that    *)
(* meet [a, b]: unit cells [k, k+1) below `top`, and one last cell         *)
(* [top, oo) (exact for an integrand that is constant on each cell).  An   *)
(* exception raised by the integrand propagates.                           *)
RECURSIVE RSum(_, _, _)
RSum(f, lo, hi) == IF lo > hi THEN R(0) ELSE RAdd(f[lo], RSum(f, lo + 1, hi))

(* the first exception among the outcomes f[lo], ..., f[hi], if any, else  *)
(* the sum of their values weighted by w                                   *)
WeightedSum(f, w, lo, hi) ==
    LET bad == {k \in lo .. hi : ~f[k].ok}
    IN  IF bad # {} THEN f[CHOOSE k \in bad : \A j \in bad : k <= j]
        ELSE Ok(RSum([k \in lo .. hi |-> RMul(f[k].val, w[k])], lo, hi))

(* the cells that meet [a, b] (or [b, a]) *)
QuadRange(a, b, top) ==
    LET lo == IF RLess(b, a) THEN b ELSE a
        hi == IF RLess(b, a) THEN a ELSE b
    IN  (IF Floor(lo) > top THEN top ELSE Floor(lo)) ..
        (IF Ceil(hi) - 1 > top THEN top ELSE Ceil(hi) - 1)

(* the two ends of the part of cell k inside the interval *)
QuadLeft(a, b, k) ==
    LET lo == IF RLess(b, a) THEN b ELSE a
    IN  IF RLess(lo, R(k)) THEN R(k) ELSE lo

QuadRight(a, b, k, top) ==
    LET hi == IF RLess(b, a) THEN a ELSE b
    IN  IF k < top /\ RLess(R(k + 1), hi) THEN R(k + 1) ELSE hi

(* the point of cell k at which the integrand is evaluated *)
QuadNode(a, b, k, top) == RMul(RAdd(QuadLeft(a, b, k), QuadRight(a, b, k, top)), <<1, 2>>)

(* the integral, given the outcomes f[k] of the integrand at the nodes *)
QuadSum(f, a, b, top) ==
    IF a = b THEN Ok(R(0))
    ELSE LET q == WeightedSum(f,
                     [k \in QuadRange(a, b, top) |->
                         RSub(QuadRight(a, b, k, top), QuadLeft(a, b, k))],
                     CHOOSE k \in QuadRange(a, b, top) : \A j \in QuadRange(a, b, top) : k <= j,
                     CHOOSE k \in QuadRange(a, b, top) : \A j \in QuadRange(a, b, top) : k >= j)
         IN  IF q.ok /\ RLess(b, a) THEN Ok(RNeg(q.val)) ELSE q

RedshiftIntegral(zmax) ==
    QuadSum([k \in QuadRange(R(0), zmax, ZTop - 1) |->
                RedshiftDistribution(QuadNode(R(0), zmax, k, ZTop - 1))],
            R(0), zmax, ZTop - 1)

(* a variant that keeps the stop value when the steps reach it exactly *)
arange_closed(start, stop, step) ==
    LET n == Floor(NpDiv(RSub(stop, start), step)) + 1
    IN  [i \in 1 .. (IF n > 0 THEN n ELSE 0) |-> RAdd(start, RMul(R(i - 1), step))]

(* np.arange(start, stop, step) for step > 0 *)
arange(start, stop, step) ==
    LET n == Ceil(NpDiv(RSub(stop, start), step))
    IN  [i \in 1 .. (IF n > 0 THEN n ELSE 0) |-> RAdd(start, RMul(R(i - 1), step))]

(* a variant that does not accumulate *)
cumsum_none(a) == a

(* np.cumsum *)
cumsum(a) ==
    LET c[i \in 0 .. Len(a)] == IF i = 0 THEN R(0) ELSE RAdd(c[i - 1], a[i])
    IN  [i \in 1 .. Len(a) |-> c[i]]

(* The local computations of setup_redshift_cdf, up to the two assignments *)
(* that end it: the outcome, and the locals redshift_bins and RedshiftCDF. *)
setup_locals(zmax, zmin, bins) ==
    IF bins = 0
    THEN [out |-> Raise("ZeroDivisionError", <<"float division by zero">>),
          redshift_bins |-> <<>>, RedshiftCDF |-> <<>>]
    ELSE
    LET redshift_bins == arange(R(zmin), R(zmax), Rat(zmax, bins))
        pdf == [i \in 1 .. Len(redshift_bins) |-> RedshiftDistribution(redshift_bins[i])]
        bad == {i \in 1 .. Len(redshift_bins) : ~pdf[i].ok}
    IN  IF bad # {}
        THEN [out |-> pdf[CHOOSE i \in bad : \A j \in bad : i <= j],
              redshift_bins |-> redshift_bins, RedshiftCDF |-> <<>>]
        ELSE IF Len(redshift_bins) = 0
        THEN [out |-> Raise("IndexError", <<"index -1 is out of bounds">>),
              redshift_bins |-> redshift_bins, RedshiftCDF |-> <<>>]
        ELSE
        LET RedshiftCDF == cumsum([i \in 1 .. Len(redshift_bins) |-> pdf[i].val])
        IN  [out |-> Ok(<<>>),
             redshift_bins |-> redshift_bins,
             RedshiftCDF |-> [i \in 1 .. Len(RedshiftCDF) |->
                                 NpDiv(RedshiftCDF[i], RedshiftCDF[Len(RedshiftCDF)])]]

(* a variant that assigns self.redshift_bins as soon as it is computed *)
setup_redshift_cdf_bins_first(zmax, zmin, bins) ==
    LET l == setup_locals(zmax, zmin, bins)
    IN  [out |-> l.out,
         self |-> IF l.out.ok
                  THEN ("redshift_bins" :> l.redshift_bins) @@
                       ("redshift_cdf" :> l.RedshiftCDF) @@ self
                  ELSE IF bins = 0 THEN self
                  ELSE ("redshift_bins" :> l.redshift_bins) @@ self]

(* a variant that forgets to assign self.redshift_bins *)
setup_redshift_cdf_cdf_only(zmax, zmin, bins) ==
    LET l == setup_locals(zmax, zmin, bins)
    IN  [out |-> l.out,
         self |-> IF l.out.ok THEN ("redshift_cdf" :> l.RedshiftCDF) @@ self ELSE self]

(* SourcePopulation.setup_redshift_cdf: the outcome and the object after   *)
(* the call.                                                               *)
setup_redshift_cdf(zmax, zmin, bins) ==
    LET l == setup_locals(zmax, zmin, bins)
    IN  [out |-> l.out,
         self |-> IF l.out.ok
                  THEN ("redshift_bins" :> l.redshift_bins) @@
                       ("redshift_cdf" :> l.RedshiftCDF) @@ self
                  ELSE self]

(* np.searchsorted(a, v), side "left": the number of entries below v *)
searchsorted(a, v) == Cardinality({i \in 1 .. Len(a) : RLess(a[i], v)})

(* a variant that returns nothing, quietly, when there is no table *)
sample_redshift_lenient(N, rand_cdf) ==
    IF "redshif_cdf" \notin DOMAIN self THEN Ok(<<>>)
    ELSE Ok([i \in 1 .. N |->
                self["redshift_bins"][searchsorted(self["redshif_cdf"], rand_cdf[i]) + 1]])

(* SourcePopulation.sample_redshift; rand_cdf are the N uniform draws.     *)
(* The cumulative table is read from the attribute "redshif_cdf".          *)
sample_redshift(N, rand_cdf) ==
    IF "redshif_cdf" \notin DOMAIN self
    THEN Raise("AttributeError", <<"SourcePopulation", "redshif_cdf">>)
    ELSE IF "redshift_bins" \notin DOMAIN self
    THEN Raise("AttributeError", <<"SourcePopulation", "redshift_bins">>)
    ELSE LET bin_index == [i \in 1 .. N |-> searchsorted(self["redshif_cdf"], rand_cdf[i])]
         IN  IF \E i \in 1 .. N : bin_index[i] >= Len(self["redshift_bins"])
             THEN Raise("IndexError", <<"index out of bounds">>)
             ELSE Ok([i \in 1 .. N |-> self["redshift_bins"][bin_index[i] + 1]])

(* cosmolopy.distance.luminosity_distance(z, **c) *)
luminosity_distance(z, c) == R(hubble_distance(c) * (CellOf(z) + 1))

LuminosityDistance(z) == luminosity_distance(z, self["cosmology"])

(* cosmolopy.distance.comoving_volume: the full-sky volume out to z *)
comoving_volume(z) ==
    LET dv(x) == Ok(diff_comoving_volume(x))
    IN  RMul(R(4 * np_pi),
             QuadSum([k \in QuadRange(R(0), z, ZTop - 1) |-> dv(QuadNode(R(0), z, k, ZTop - 1))],
                     R(0), z, ZTop - 1).val)

(* a variant with the quotient of the two integrals upside down *)
Ntotal_of_inverted(density, vlocal, ilocal, imax) ==
    IF ~ilocal.ok THEN ilocal
    ELSE IF ~imax.ok THEN imax
    ELSE IF ilocal.val[1] = 0
    THEN Raise("ZeroDivisionError", <<"float division by zero">>)
    ELSE Ok(NpDiv(RMul(density, vlocal), NpDiv(imax.val, ilocal.val)))

Ntotal_of(density, vlocal, ilocal, imax) ==
    IF ~ilocal.ok THEN ilocal
    ELSE IF ~imax.ok THEN imax
    ELSE IF imax.val[1] = 0
    THEN Raise("ZeroDivisionError", <<"float division by zero">>)
    ELSE Ok(NpDiv(RMul(density, vlocal), NpDiv(ilocal.val, imax.val)))

(* density * vlocal / (RedshiftIntegral(_zlocal) / RedshiftIntegral(zmax)): *)
(* the inner quotient is one of Python floats and raises on a zero         *)
(* divisor, the outer one is numpy's.                                      *)
Nsources(density, zmax) ==
    Ntotal_of(density, comoving_volume(self["_zlocal"]),
              RedshiftIntegral(self["_zlocal"]), RedshiftIntegral(zmax))

(* Unit constants of __init__, scaled down so that products stay within    *)
(* TLC's integers: 3.086e24 cm per Mpc and 50526 (ergs/yr) per (GeV/sec).  *)
Mpc2cm == 3
GeV_per_sec_2_ergs_per_year == 5

RPowZ(a, k) == IF k >= 0 THEN RPow(a, k) ELSE NpDiv(R(1), RPow(a, -k))

flux_integral(index, emin, emax, E0) ==
    LET integrand(E) == Ok(RMul(E, RPowZ(NpDiv(E, R(E0)), -Abs(index))))
        top == IF emin > emax THEN emin ELSE emax
    IN  QuadSum([k \in QuadRange(R(emin), R(emax), top) |->
                    integrand(QuadNode(R(emin), R(emax), k, top))],
                R(emin), R(emax), top).val

Flux2Lumi(fluxnorm, index, emin, emax, E0) ==
    RMul(RMul(RMul(RMul(NpDiv(fluxnorm, RPow(R(E0), 2)),
                        flux_integral(index, emin, emax, E0)),
                   R(GeV_per_sec_2_ergs_per_year)),
              R(4 * np_pi)),
         RPow(RMul(self["dL1"], R(self["Mpc2cm"])), 2))

(* a variant that multiplies by E0 where the code multiplies by E0**2 *)
Lumi2Flux_E0_once(luminosity, index, emin, emax, E0) ==
    RMul(NpDiv(NpDiv(NpDiv(NpDiv(NpDiv(luminosity, R(4)), R(np_pi)),
                           RPow(RMul(self["dL1"], R(self["Mpc2cm"])), 2)),
                     R(self["GeV_per_sec_2_ergs_per_year"])),
               flux_integral(index, emin, emax, E0)),
         R(E0))

Lumi2Flux(luminosity, index, emin, emax, E0) ==
    RMul(NpDiv(NpDiv(NpDiv(NpDiv(NpDiv(luminosity, R(4)), R(np_pi)),
                           RPow(RMul(self["dL1"], R(self["Mpc2cm"])), 2)),
                     R(self["GeV_per_sec_2_ergs_per_year"])),
               flux_integral(index, emin, emax, E0)),
         RPow(R(E0), 2))

(* yr2sec = 86400*365 of the transient override, in units of 1e6 seconds   *)
(* so that products stay within TLC's integers.                            *)
yr2sec == (86400 * 365) \div 1000000

(* The body shared by SourcePopulation.StandardCandleSources (power 2, no  *)
(* time factor) and the TransientSourcePopulation override (power 3,       *)
(* factor yr2sec).                                                         *)
StandardCandleQuad(normval, index, power) ==
    LET integrand(z) ==
            Ok(NpDiv(RMul(NpDiv(RPowZ(RAdd(R(1), z), power - Abs(index)),
                                RPow(LuminosityDistance(z), 2)),
                          RedshiftDistribution(z).val),
                     normval))
    IN  QuadSum([k \in QuadRange(R(0), R(10), ZTop - 1) |->
                    integrand(QuadNode(R(0), R(10), k, ZTop - 1))],
                R(0), R(10), ZTop - 1).val

StandardCandleFlux(norm, Ntotal, fluxnorm, index, power, factor) ==
    IF ~norm.ok THEN norm
    ELSE IF ~Ntotal.ok THEN Ntotal
    ELSE Ok(NpDiv(NpDiv(NpDiv(RMul(RMul(R(4 * np_pi), fluxnorm), R(factor)), Ntotal.val),
                        RPow(self["dL1"], 2)),
                  StandardCandleQuad(norm.val, index, power)))

StandardCandleBody(fluxnorm, density, zmax, index, power, factor) ==
    StandardCandleFlux(RedshiftIntegral(zmax), Nsources(density, zmax),
                       fluxnorm, index, power, factor)

StandardCandleSources(fluxnorm, density, zmax, index) ==
    IF kind = "TransientSourcePopulation"
    THEN StandardCandleBody(fluxnorm, density, zmax, index, 3, yr2sec)
    ELSE StandardCandleBody(fluxnorm, density, zmax, index, 2, 1)

(* ------------------------------ inputs --------------------------------- *)
NameInputs == SupportedNames \cup {"SFR", ""}
XInputs == {0, HB_break1 - 1, HB_break1, HB_break1 + 1,
            HB_break2 - 1, HB_break2, HB_break2 + 1, 100000}
ZmaxInputs == {<<1, 100>>} \cup {R(k) : k \in 1 .. ZTop}
ZInputs == {<<1, 100>>} \cup {R(k) : k \in 0 .. ZTop}
Densities == {R(1), R(2)}
Fluxes == {R(1), R(2)}
Indices == {-2, 1}
Energies == {<<1, 2>>, <<1, 3>>, <<2, 2>>}
E0s == {1, 2}
Draws == {R(0), <<9, 10>>}

(* the module-level cosmology dictionary, in units of 1e-3 *)
cosmology == [omega_M_0 |-> 308, omega_lambda_0 |-> 692, h |-> 678]

Cosmologies == {cosmology, [omega_M_0 |-> 308, omega_lambda_0 |-> 692, h |-> 1356]}

NoEvolutionLaw == [abstract |-> FALSE, w |-> [k \in Cells |-> 1]]
AbstractLaw == [abstract |-> TRUE, w |-> [k \in Cells |-> 0]]

Evolutions ==
    {[abstract |-> FALSE, w |-> t] : t \in [Cells -> 0 .. MaxW]} \cup {AbstractLaw}

Kinds == {"SourcePopulation", "TransientSourcePopulation"}

(* --------------------------- specification ----------------------------- *)
(* cosmolopy.distance.set_omega_k_0: flat unless omega_k_0 is given *)
set_omega_k_0(c) ==
    [omega_M_0 |-> c.omega_M_0, omega_lambda_0 |-> c.omega_lambda_0, h |-> c.h,
     omega_k_0 |-> 1000 - c.omega_M_0 - c.omega_lambda_0]

(* SourcePopulation.__init__(cosmology, evolution) *)
SourcePopulation_init(c, evolution) ==
    ("_zlocal" :> <<1, 100>>) @@
    ("Mpc2cm" :> Mpc2cm) @@
    ("GeV_per_sec_2_ergs_per_year" :> GeV_per_sec_2_ergs_per_year) @@
    ("evolution" :> evolution) @@
    ("cosmology" :> set_omega_k_0(c)) @@
    ("dL1" :> luminosity_distance(R(1), set_omega_k_0(c)))

(* The state after one population of a class in K has been constructed     *)
(* with a cosmology in C and an evolution law in E.                        *)
Constructed(K, C, E) ==
    /\ kind \in K
    /\ \E c \in C, e \in E : self = SourcePopulation_init(c, e)
    /\ ret = [op |-> "__init__", out |-> Ok(<<>>)]
    /\ built = <<>>

DoGetEvolution ==
    \E evol \in NameInputs :
        /\ ret' = [op |-> "get_evolution", args |-> <<evol>>, out |-> get_evolution(evol)]
        /\ UNCHANGED <<self, kind, built>>

DoParametrization ==
    \E x \in XInputs :
        /\ ret' = [op |-> "HB2006SFR.parametrization", args |-> <<x>>,
                   out |-> Ok(HB_parametrization(x))]
        /\ UNCHANGED <<self, kind, built>>

DoRedshiftDistribution ==
    \E z \in ZInputs :
        /\ ret' = [op |-> "RedshiftDistribution", args |-> <<z>>, out |-> RedshiftDistribution(z)]
        /\ UNCHANGED <<self, kind, built>>

DoRedshiftIntegral ==
    \E zmax \in ZmaxInputs :
        /\ ret' = [op |-> "RedshiftIntegral", args |-> <<zmax>>, out |-> RedshiftIntegral(zmax)]
        /\ UNCHANGED <<self, kind, built>>

(* built remembers the arguments of the last call that completed *)
DoSetupRedshiftCdf ==
    \E zmax \in 1 .. ZTop, zmin \in 0 .. (ZTop - 1), bins \in 0 .. MaxBins :
        LET r == setup_redshift_cdf(zmax, zmin, bins)
        IN  /\ self' = r.self
            /\ ret' = [op |-> "setup_redshift_cdf", out |-> r.out]
            /\ built' = IF r.out.ok THEN <<[zmax |-> zmax, zmin |-> zmin, bins |-> bins]>>
                        ELSE built
            /\ UNCHANGED kind

DoSampleRedshift ==
    \E N \in {1, 2} :
        \E rand_cdf \in [1 .. N -> Draws] :
            /\ ret' = [op |-> "sample_redshift", args |-> <<N, rand_cdf>>,
                       out |-> sample_redshift(N, rand_cdf)]
            /\ UNCHANGED <<self, kind, built>>

DoLuminosityDistance ==
    \E z \in ZInputs :
        /\ ret' = [op |-> "LuminosityDistance", args |-> <<z>>, out |-> Ok(LuminosityDistance(z))]
        /\ UNCHANGED <<self, kind, built>>

DoNsources(DS) ==
    \E density \in DS, zmax \in ZmaxInputs :
        /\ ret' = [op |-> "Nsources", args |-> <<density, zmax>>, out |-> Nsources(density, zmax)]
        /\ UNCHANGED <<self, kind, built>>

(* A conversion is called on fresh arguments, or on the result of the      *)
(* opposite conversion with that call's spectrum (the index of either      *)
(* sign); from is then the argument that call was given.                   *)
DoFlux2Lumi(FS, IS, ES, E0S) ==
    \E a \in {<<F, index, e[1], e[2], E0, <<>>>> :
                 F \in FS, index \in IS, e \in ES, E0 \in E0S}
             \cup (IF ret.op = "Lumi2Flux" /\ ret.from = <<>>
                   THEN {<<ret.out.val, i, ret.args[3], ret.args[4], ret.args[5], <<ret.args[1]>>>> :
                            i \in {ret.args[2], -ret.args[2]}}
                   ELSE {}) :
        /\ ret' = [op |-> "Flux2Lumi", args |-> <<a[1], a[2], a[3], a[4], a[5]>>,
                   out |-> Ok(Flux2Lumi(a[1], a[2], a[3], a[4], a[5])), from |-> a[6]]
        /\ UNCHANGED <<self, kind, built>>

DoLumi2Flux(LS, IS, ES, E0S) ==
    \E a \in {<<L, index, e[1], e[2], E0, <<>>>> :
                 L \in LS, index \in IS, e \in ES, E0 \in E0S}
             \cup (IF ret.op = "Flux2Lumi" /\ ret.from = <<>>
                   THEN {<<ret.out.val, i, ret.args[3], ret.args[4], ret.args[5], <<ret.args[1]>>>> :
                            i \in {ret.args[2], -ret.args[2]}}
                   ELSE {}) :
        /\ ret' = [op |-> "Lumi2Flux", args |-> <<a[1], a[2], a[3], a[4], a[5]>>,
                   out |-> Ok(Lumi2Flux(a[1], a[2], a[3], a[4], a[5])), from |-> a[6]]
        /\ UNCHANGED <<self, kind, built>>

DoStandardCandleSources(FS, IS) ==
    \E F \in FS, zmax \in ZmaxInputs, index \in IS :
        /\ ret' = [op |-> "StandardCandleSources", args |-> <<F, R(1), zmax, index>>,
                   out |-> StandardCandleSources(F, R(1), zmax, index)]
        /\ UNCHANGED <<self, kind, built>>

(* Every public operation, each on one family of arguments, on a           *)
(* population of either class with a usable or an abstract law.            *)
Init == Constructed(Kinds, {cosmology}, {NoEvolutionLaw, AbstractLaw})

Next ==
    \/ DoGetEvolution
    \/ DoParametrization
    \/ DoRedshiftDistribution
    \/ DoRedshiftIntegral
    \/ DoSetupRedshiftCdf
    \/ DoSampleRedshift
    \/ DoLuminosityDistance
    \/ DoNsources({R(1)})
    \/ DoFlux2Lumi({R(1)}, {-2}, {<<1, 3>>}, {2})
    \/ DoLumi2Flux({R(1)}, {-2}, {<<1, 3>>}, {2})
    \/ DoStandardCandleSources({R(1)}, {-2})

Spec == Init /\ [][Next]_vars

(* the sampling table of a population with any evolution law *)
InitTable == Constructed(Kinds, {cosmology}, Evolutions)
NextTable == DoSetupRedshiftCdf \/ DoSampleRedshift
SpecTable == InitTable /\ [][NextTable]_vars

(* the evolution laws *)
InitAny == Constructed(Kinds, Cosmologies, Evolutions)
NextLaw == DoGetEvolution \/ DoParametrization
SpecLaw == InitAny /\ [][NextLaw]_vars

(* the flux conversions, which read dL1 and the unit constants only *)
InitFlux == Constructed(Kinds, Cosmologies, {NoEvolutionLaw})
NextFlux ==
    \/ DoFlux2Lumi(Fluxes, Indices, Energies, E0s)
    \/ DoLumi2Flux(Fluxes, Indices, Energies, E0s)
SpecFlux == InitFlux /\ [][NextFlux]_vars

(* the source counts of a population with any evolution law *)
NextCount ==
    \/ DoRedshiftDistribution
    \/ DoRedshiftIntegral
    \/ DoLuminosityDistance
    \/ DoNsources(Densities)
    \/ DoStandardCandleSources(Fluxes, Indices)
SpecCount == InitAny /\ [][NextCount]_vars

(* ------------------------------- claims -------------------------------- *)
Range(q) == {q[i] : i \in 1 .. Len(q)}
HasTable == "redshift_bins" \in DOMAIN self /\ "redshift_cdf" \in DOMAIN self
Table(s) == [a \in {"redshift_bins", "redshift_cdf"} \cap DOMAIN s |-> s[a]]

C2_SampleAfterBuildSucceeds ==
    (ret.op = "sample_redshift" /\ built # <<>> /\ 0 < built[1].zmin)
        => /\ ret.out.ok
           /\ Len(ret.out.val) = ret.args[1]
           /\ \A i \in 1 .. ret.args[1] :
                 /\ ret.out.val[i] =
                       self["redshift_bins"][searchsorted(self["redshift_cdf"], ret.args[2][i]) + 1]
                 /\ RLeq(R(built[1].zmin), ret.out.val[i])
                 /\ RLess(ret.out.val[i], R(built[1].zmax))

(* RedshiftDistribution is non-negative at every bin edge of the table and *)
(* positive at one of them at least                                        *)
EdgesWeighted ==
    /\ \A i \in 1 .. Len(self["redshift_bins"]) :
          /\ RedshiftDistribution(self["redshift_bins"][i]).ok
          /\ RLeq(R(0), RedshiftDistribution(self["redshift_bins"][i]).val)
    /\ \E i \in 1 .. Len(self["redshift_bins"]) :
          RLess(R(0), RedshiftDistribution(self["redshift_bins"][i]).val)

(* C3: whenever a sampling table exists, after a first build or a rebuild, *)
(* redshift_cdf is non-decreasing and its last entry is exactly 1, given   *)
(* that RedshiftDistribution is non-negative at every bin edge and         *)
(* positive at one at least.                                               *)
C3_CdfMonotoneEndsAtOne ==
    (HasTable /\ EdgesWeighted)
        => /\ \A i, j \in 1 .. Len(self["redshift_cdf"]) :
                 i <= j => RLeq(self["redshift_cdf"][i], self["redshift_cdf"][j])
           /\ self["redshift_cdf"][Len(self["redshift_cdf"])] = R(1)

C3_Witness ==
    /\ HasTable
    /\ EdgesWeighted
    /\ Len(self["redshift_cdf"]) >= 2
    /\ RLess(self["redshift_cdf"][1], self["redshift_cdf"][2])

(* the arguments of the last completed build are in the claim's domain *)
BuiltInDomain ==
    built # <<>> /\ 0 < built[1].zmin /\ built[1].zmin < built[1].zmax /\ built[1].bins >= 1

C5_GetEvolution ==
    ret.op = "get_evolution"
        => IF ret.args[1] \in SupportedNames
           THEN ret.out.ok /\ ret.out.val.class = evolutions[ret.args[1]]
           ELSE /\ ~ret.out.ok
                /\ ret.out.err = "NotImplementedError"
                /\ ret.args[1] \in Range(ret.out.msg)
                /\ SupportedNames \subseteq Range(ret.out.msg)

(* the call whose result the last conversion was given had a non-zero      *)
(* energy integral                                                         *)
RoundTrip ==
    /\ ret.op \in {"Flux2Lumi", "Lumi2Flux"}
    /\ ret.from # <<>>
    /\ flux_integral(ret.args[2], ret.args[3], ret.args[4], ret.args[5]) # R(0)

(* C6: Lumi2Flux undoes Flux2Lumi and Flux2Lumi undoes Lumi2Flux, on the   *)
(* same population and for the same index (of either sign), emin, emax and *)
(* E0, whenever the energy integral is not zero.                           *)
C6_FluxLumiInverse == RoundTrip => ret.out.val = ret.from[1]

C6_Witness ==
    /\ RoundTrip
    /\ ret.op = "Lumi2Flux"
    /\ ret.args[5] = 2
    /\ ret.from[1] = R(2)
    /\ ret.out.val = R(2)

(* C7 as stated: at each breakpoint of HB2006SFR the value returned and    *)
(* the formula of the branch below it agree to within floating-point       *)
(* tolerance (here 1e-8 in the exponent, in units of 1e-8).                *)
C7_ContinuousAtBreaks ==
    ret.op = "HB2006SFR.parametrization"
        => /\ ret.args[1] = HB_break1 => Abs(HB_low(HB_break1) - ret.out.val) <= 1
           /\ ret.args[1] = HB_break2 => Abs(HB_mid(HB_break2) - ret.out.val) <= 1

(* C7 amended: HB2006SFR is continuous at its breakpoints only             *)
(* approximately: at x = 0.30963 the exponent returned, -0.26x-0.724, is   *)
(* 9.02e-5 below 3.28x-1.82, and at x = 0.73878 the exponent returned,     *)
(* -8x+4.99, is 4.1572e-3 below -0.26x-0.724.                              *)
C7_StepsAtBreaks ==
    ret.op = "HB2006SFR.parametrization"
        => /\ ret.args[1] = HB_break1 => HB_low(HB_break1) - ret.out.val = 9020
           /\ ret.args[1] = HB_break2 => HB_mid(HB_break2) - ret.out.val = 415720

C7_Witness ==
    ret.op = "HB2006SFR.parametrization" /\ ret.args[1] = HB_break2

(* what C8 says of a call Nsources(density, zmax) that returned ret.out *)
CountIsSound ==
    /\ ret.out.ok
    /\ IsFinite(ret.out.val)
    /\ RLess(R(0), ret.out.val)
    /\ ret.args[2] = self["_zlocal"]
          => ret.out.val = RMul(ret.args[1], comoving_volume(self["_zlocal"]))
    /\ \A z2 \in ZmaxInputs :
          RLess(ret.args[2], z2)
              => /\ Nsources(ret.args[1], z2).ok
                 /\ RLeq(ret.out.val, Nsources(ret.args[1], z2).val)
                 /\ RLess(RedshiftIntegral(ret.args[2]).val, RedshiftIntegral(z2).val)
                       => RLess(ret.out.val, Nsources(ret.args[1], z2).val)

(* C8 as stated: for a positive density and a non-negative evolution law,  *)
(* Nsources(density, zmax) is positive and finite for every zmax > 0,      *)
(* never decreases as zmax grows (and grows where the redshift integral    *)
(* does), and is density * V_c(0.01) at zmax = 0.01.                       *)
C8_CountPositiveMonotone ==
    (ret.op = "Nsources" /\ ~self["evolution"].abstract) => CountIsSound

(* C8 amended: the same, for a non-negative evolution law whose redshift   *)
(* integrals to 0.01 and to zmax are both positive.                        *)
C8_CountPositiveMonotoneWhenIntegralsPositive ==
    (/\ ret.op = "Nsources"
     /\ ~self["evolution"].abstract
     /\ RLess(R(0), RedshiftIntegral(self["_zlocal"]).val)
     /\ RLess(R(0), RedshiftIntegral(ret.args[2]).val))
        => CountIsSound

C8_Witness ==
    /\ ret.op = "Nsources"
    /\ ~self["evolution"].abstract
    /\ RLess(R(0), RedshiftIntegral(self["_zlocal"]).val)
    /\ ret.args[2] = R(1)
    /\ ret.out.ok
    /\ RLess(ret.out.val, Nsources(ret.args[1], R(2)).val)

(* C9: no operation changes dL1, the cosmology, the evolution law, _zlocal *)
(* or the class; no operation but setup_redshift_cdf changes the sampling  *)
(* table; and a setup_redshift_cdf that completes leaves a table that is   *)
(* wholly its own: both parts, of one length, starting at its zmin.        *)
C9_Frame ==
    [][/\ self'["dL1"] = self["dL1"]
       /\ self'["cosmology"] = self["cosmology"]
       /\ self'["evolution"] = self["evolution"]
       /\ self'["_zlocal"] = self["_zlocal"]
       /\ kind' = kind
       /\ ret'.op # "setup_redshift_cdf" => Table(self') = Table(self)
       /\ (ret'.op = "setup_redshift_cdf" /\ ret'.out.ok)
             => /\ DOMAIN Table(self') = {"redshift_bins", "redshift_cdf"}
                /\ Len(self'["redshift_bins"]) = Len(self'["redshift_cdf"])
                /\ self'["redshift_bins"][1] = R(built'[1].zmin)]_vars

C9_Witness ==
    HasTable /\ ret.op = "StandardCandleSources" /\ ret.out.ok

(* C10: redshift_bins and redshift_cdf are both absent, or both present,   *)
(* of one length and from one call (the table is the normalised running    *)
(* sum of RedshiftDistribution over the edges that start at the zmin of    *)
(* the last completed call); and a setup_redshift_cdf that raises leaves   *)
(* both as they were.                                                      *)
C10_TableAtomic ==
    /\ [](/\ "redshift_bins" \in DOMAIN self <=> "redshift_cdf" \in DOMAIN self
          /\ HasTable <=> built # <<>>
          /\ HasTable
                => /\ Len(self["redshift_bins"]) = Len(self["redshift_cdf"])
                   /\ self["redshift_bins"][1] = R(built[1].zmin)
                   /\ \A i \in 1 .. Len(self["redshift_cdf"]) :
                         self["redshift_cdf"][i] =
                            NpDiv(RSum([k \in 1 .. Len(self["redshift_bins"]) |->
                                          RedshiftDistribution(self["redshift_bins"][k]).val], 1, i),
                                  RSum([k \in 1 .. Len(self["redshift_bins"]) |->
                                          RedshiftDistribution(self["redshift_bins"][k]).val],
                                       1, Len(self["redshift_bins"]))))
    /\ [][(ret'.op = "setup_redshift_cdf" /\ ~ret'.out.ok) => Table(self') = Table(self)]_vars

C10_Witness ==
    /\ HasTable
    /\ ret.op = "setup_redshift_cdf"
    /\ ~ret.out.ok
    /\ ret.out.err = "IndexError"

====
